---- MODULE Spec2Model ----
(***************************************************************************)
(* The prim iterators of usdPhysics/parsePrimIterator.h:                   *)
(*   ParsePrimIteratorRange        one UsdPrimRange                        *)
(*   ParsePrimIteratorMapRange     the ranges of the prims of a UsdPrimMap *)
(*   ExcludeListPrimIteratorRange  one UsdPrimRange minus excluded paths   *)
(* over a small prim hierarchy.  UsdPrimRange and its iterator belong to   *)
(* pxr/usd/usd/primRange.h; they are modelled by what the iterators rely   *)
(* on: depth-first pre-order, PruneChildren, begin/end and equality.       *)
(***************************************************************************)
EXTENDS Integers, Sequences, FiniteSets

\* ---------------------------------------------------------------- bounds
MaxNodes == 3
MaxRoots == 3
MaxPaths == 2
MaxCalls == 6

\* ------------------------------------------------------ the prim hierarchy
\* The position of UsdPrimRange::end(), and the invalid prim UsdPrim().
EndPos == 0
InvalidPrim == 0

Nodes == 1..MaxNodes

VARIABLES
    parent,      \* parent[n]: the parent prim of n, 0 for a top-level prim
    instance,    \* the instance prim (its descendants are instance proxies), 0 if none
    strategy,    \* which iterator class was constructed
    range,       \* constructor argument of the two single-range classes
    pathList,    \* constructor argument of ExcludeListPrimIteratorRange
    mPrimMap,    \* the UsdPrimMap: its prims in key order
    cursor,      \* the members of the iterator object
    crashed,     \* the process was terminated by undefined behaviour
    err,         \* the last call posted a coding error
    lastOp,      \* the last member function called
    resetFrom,   \* after reset(): the kind of state it was called in
    visited,     \* getCurrent() positions seen at the head of the driver loop
    pruned,      \* <<root index, prim>> of the pruneChildren() calls of this pass
    nextCalls,   \* next() calls of this pass
    driver,      \* this pass only made the calls the driver loop makes
    other,       \* a second iterator object over the same source, if there is one
    turn         \* with two objects: the one the last call was made on

vars == <<parent, instance, strategy, range, pathList, mPrimMap, cursor,
          crashed, err, lastOp, resetFrom, visited, pruned, nextCalls, driver,
          other, turn>>

source == <<parent, instance, strategy, range, pathList, mPrimMap>>

Min(S) == CHOOSE x \in S : \A y \in S : x <= y

RECURSIVE Ancestors(_)
Ancestors(n) ==
    IF parent[n] = 0 THEN {} ELSE {parent[n]} \cup Ancestors(parent[n])

StrictDesc(n) == {m \in Nodes : n \in Ancestors(m)}

SubTree(n) == IF n = InvalidPrim THEN {} ELSE {n} \cup StrictDesc(n)

IsProxy(n) == instance # 0 /\ instance \in Ancestors(n)

\* ------------------------------------------------------------ UsdPrimRange
\* A range is its start prim and whether its predicate traverses instance
\* proxies.  A traversal that starts at an instance proxy traverses proxies.
UsdPrimRange(prim, trav) == [root |-> prim, trav |-> trav]

DefaultRange == UsdPrimRange(InvalidPrim, FALSE)

Admits(rng, n) ==
    rng.trav \/ ~IsProxy(n) \/ (rng.root # InvalidPrim /\ IsProxy(rng.root))

RangeBegin(rng) == IF rng.root = InvalidPrim THEN EndPos ELSE rng.root

FirstChild(rng, n) ==
    LET kids == {c \in Nodes : parent[c] = n /\ Admits(rng, c)}
    IN  IF kids = {} THEN EndPos ELSE Min(kids)

RECURSIVE NextSiblingOrUp(_, _)
NextSiblingOrUp(rng, n) ==
    IF n = rng.root \/ parent[n] = 0 THEN EndPos
    ELSE LET sibs == {c \in Nodes : parent[c] = parent[n] /\ c > n /\ Admits(rng, c)}
         IN  IF sibs # {} THEN Min(sibs) ELSE NextSiblingOrUp(rng, parent[n])

\* An iterator: bound to its range or default-constructed, its position, and
\* the prune flag (which operator== compares too).
SingularIter == [bound |-> FALSE, pos |-> EndPos, prune |-> FALSE]

IterAt(p) == [bound |-> TRUE, pos |-> p, prune |-> FALSE]

BeginIter(rng) == IterAt(RangeBegin(rng))

EndIter == IterAt(EndPos)

\* operator++ of a bound iterator that is not at the end.
Increment(rng, it) ==
    LET kid == IF it.prune THEN EndPos ELSE FirstChild(rng, it.pos)
    IN  IterAt(IF kid # EndPos THEN kid ELSE NextSiblingOrUp(rng, it.pos))

\* iterator::PruneChildren: past the end it posts a coding error and changes nothing.
PruneError(it) == it.pos = EndPos

PruneChildren(it) == IF PruneError(it) THEN it ELSE [it EXCEPT !.prune = TRUE]

\* --------------------------------------------------- ParsePrimIteratorRange
\* Mutant: reset() moves the position back and keeps the pending prune.
RangeResetKeepsPrune(c) ==
    [c EXCEPT !.mIter = [BeginIter(c.mRange) EXCEPT !.prune = c.mIter.prune]]

RangeReset(c) == [c EXCEPT !.mIter = BeginIter(c.mRange)]

RangeConstruct(rng) == RangeReset([mRange |-> rng, mIter |-> SingularIter])

RangeAtEnd(c) == c.mIter = EndIter

\* Mutant: the at-end guard of pruneChildren() is inverted.
RangePruneChildrenGuardInverted(c) ==
    IF RangeAtEnd(c) THEN [c EXCEPT !.mIter = PruneChildren(c.mIter)] ELSE c

RangePruneChildren(c) ==
    IF ~RangeAtEnd(c) THEN [c EXCEPT !.mIter = PruneChildren(c.mIter)] ELSE c

\* Mutant: next() steps a copy of mIter that lost the pending prune.
RangeNextDropsPrune(c) ==
    IF c.mIter # EndIter
    THEN [c EXCEPT !.mIter = Increment(c.mRange, [c.mIter EXCEPT !.prune = FALSE])]
    ELSE c

RangeNext(c) ==
    IF c.mIter # EndIter THEN [c EXCEPT !.mIter = Increment(c.mRange, c.mIter)] ELSE c

\* ------------------------------------------------ ParsePrimIteratorMapRange
\* mPrimMapIter is an index into the map's entries; Len + 1 is mPrimMap.end().
MapEnd(primMap) == Len(primMap) + 1

\* Mutant: reset() does not test the first range for emptiness.
MapResetNoEmptyCheck(primMap, c) ==
    LET c1 == [c EXCEPT !.mAtEnd = TRUE, !.mPrimMapIter = 1]
    IN  IF c1.mPrimMapIter # MapEnd(primMap)
        THEN LET rng == UsdPrimRange(primMap[c1.mPrimMapIter], TRUE)
             IN  [c1 EXCEPT !.mRange = rng, !.mIter = BeginIter(rng), !.mAtEnd = FALSE]
        ELSE c1

MapReset(primMap, c) ==
    LET c1 == [c EXCEPT !.mAtEnd = TRUE, !.mPrimMapIter = 1]
    IN  IF c1.mPrimMapIter # MapEnd(primMap)
        THEN LET rng == UsdPrimRange(primMap[c1.mPrimMapIter], TRUE)
                 c2 == [c1 EXCEPT !.mRange = rng]
             IN  IF BeginIter(rng) # EndIter
                 THEN [c2 EXCEPT !.mIter = BeginIter(rng), !.mAtEnd = FALSE]
                 ELSE c2
        ELSE c1

MapConstruct(primMap) ==
    MapReset(primMap, [mAtEnd |-> FALSE, mPrimMapIter |-> 1,
                       mRange |-> DefaultRange, mIter |-> SingularIter])

MapAtEnd(c) == c.mAtEnd

\* Mutant: pruneChildren() skips the subtree at once instead of marking it.
MapPruneChildrenAdvances(c) ==
    IF ~MapAtEnd(c) /\ ~PruneError(c.mIter)
    THEN [c EXCEPT !.mIter = Increment(c.mRange, PruneChildren(c.mIter))]
    ELSE c

MapPruneChildren(c) ==
    IF ~MapAtEnd(c) THEN [c EXCEPT !.mIter = PruneChildren(c.mIter)] ELSE c

\* next() for a bound mIter.
\* Mutant: the rollover keeps the pending prune of the iterator it replaces.
MapNextCarriesPrune(primMap, c) ==
    IF c.mIter # EndIter
    THEN LET it == Increment(c.mRange, c.mIter)
         IN  IF it = EndIter
             THEN LET i == c.mPrimMapIter + 1
                  IN  IF i = MapEnd(primMap)
                      THEN [c EXCEPT !.mIter = it, !.mPrimMapIter = i, !.mAtEnd = TRUE]
                      ELSE LET rng == UsdPrimRange(primMap[i], FALSE)
                           IN  [c EXCEPT !.mPrimMapIter = i, !.mRange = rng,
                                         !.mIter = [BeginIter(rng) EXCEPT
                                                       !.prune = c.mIter.prune]]
             ELSE [c EXCEPT !.mIter = it]
    ELSE c

MapNext(primMap, c) ==
    IF c.mIter # EndIter
    THEN LET it == Increment(c.mRange, c.mIter)
         IN  IF it = EndIter
             THEN LET i == c.mPrimMapIter + 1
                  IN  IF i = MapEnd(primMap)
                      THEN [c EXCEPT !.mIter = it, !.mPrimMapIter = i, !.mAtEnd = TRUE]
                      ELSE LET rng == UsdPrimRange(primMap[i], FALSE)
                           IN  [c EXCEPT !.mPrimMapIter = i, !.mRange = rng,
                                         !.mIter = BeginIter(rng)]
             ELSE [c EXCEPT !.mIter = it]
    ELSE c

\* --------------------------------------------- ExcludeListPrimIteratorRange
PathSetOf(list) == {list[i] : i \in 1..Len(list)}

ExcludeReset(c) == [c EXCEPT !.mIter = BeginIter(c.mRange)]

ExcludeConstruct(rng, list) ==
    ExcludeReset([mRange |-> rng, mIter |-> SingularIter, mPathSet |-> PathSetOf(list)])

ExcludeAtEnd(c) == c.mIter = EndIter

ExcludePruneChildren(c) == [c EXCEPT !.mIter = PruneChildren(c.mIter)]

\* Mutant: the loop prunes the children of every prim it reaches.
RECURSIVE ExcludeLoopPrunesAll(_, _, _)
ExcludeLoopPrunesAll(rng, pathSet, it) ==
    LET it2 == Increment(rng, it)
    IN  IF it2 # EndIter
        THEN IF it2.pos \in pathSet
             THEN ExcludeLoopPrunesAll(rng, pathSet, PruneChildren(it2))
             ELSE PruneChildren(it2)
        ELSE it2

\* Mutant: the test of the find() result is inverted.
RECURSIVE ExcludeLoopInvertedFind(_, _, _)
ExcludeLoopInvertedFind(rng, pathSet, it) ==
    LET it2 == Increment(rng, it)
    IN  IF it2 # EndIter
        THEN IF it2.pos \notin pathSet
             THEN ExcludeLoopInvertedFind(rng, pathSet, PruneChildren(it2))
             ELSE it2
        ELSE it2

\* The while (!validPrim) loop of next().
RECURSIVE ExcludeLoop(_, _, _)
ExcludeLoop(rng, pathSet, it) ==
    LET it2 == Increment(rng, it)
    IN  IF it2 # EndIter
        THEN IF it2.pos \in pathSet
             THEN ExcludeLoop(rng, pathSet, PruneChildren(it2))
             ELSE it2
        ELSE it2

ExcludeNext(c) ==
    IF c.mIter # EndIter
    THEN [c EXCEPT !.mIter = ExcludeLoop(c.mRange, c.mPathSet, c.mIter)]
    ELSE c

\* ------------------------------------------------------------ getCurrent()
\* What a getCurrent() call gives its caller: the three classes return mIter
\* whatever the position, and have no failing path.
RangeGetCurrent(c) == [failed |-> FALSE, value |-> c.mIter]

MapGetCurrent(c) == [failed |-> FALSE, value |-> c.mIter]

ExcludeGetCurrent(c) == [failed |-> FALSE, value |-> c.mIter]

\* ------------------------------------------------------- the base interface
atEnd ==
    CASE strategy = "range" -> RangeAtEnd(cursor)
      [] strategy = "map" -> MapAtEnd(cursor)
      [] OTHER -> ExcludeAtEnd(cursor)

getCurrent == cursor.mIter

\* The outcome of getCurrent() on the iterator of the run.
GetCurrentOutcome ==
    CASE strategy = "range" -> RangeGetCurrent(cursor)
      [] strategy = "map" -> MapGetCurrent(cursor)
      [] OTHER -> ExcludeGetCurrent(cursor)

\* The root the cursor is under: the map index, 1 for the single-range classes.
RootIndex(c) == IF strategy = "map" THEN c.mPrimMapIter ELSE 1

AtEndOf(c) ==
    CASE strategy = "range" -> RangeAtEnd(c)
      [] strategy = "map" -> MapAtEnd(c)
      [] OTHER -> ExcludeAtEnd(c)

\* ------------------------------------------------------------------- Init
ParentFns == {p \in [Nodes -> 0..(MaxNodes - 1)] : \A n \in Nodes : p[n] < n}

RECURSIVE SeqsUpTo(_, _)
SeqsUpTo(S, n) ==
    IF n = 0 THEN {<<>>}
    ELSE SeqsUpTo(S, n - 1) \cup
         {Append(q, x) : q \in {r \in SeqsUpTo(S, n - 1) : Len(r) = n - 1}, x \in S}

\* Map keys are the prims' paths, in path order; an invalid prim may sit under any key.
PrimMaps ==
    {m \in SeqsUpTo(Nodes \cup {InvalidPrim}, MaxRoots) :
        \A i, j \in 1..Len(m) :
            (i < j /\ m[i] # InvalidPrim /\ m[j] # InvalidPrim) => m[i] < m[j]}

\* Path vectors up to reordering: a path may be listed twice.
PathLists ==
    {q \in SeqsUpTo(Nodes, MaxPaths) : \A i, j \in 1..Len(q) : i < j => q[i] <= q[j]}

Ranges == {UsdPrimRange(r, t) : r \in Nodes \cup {InvalidPrim}, t \in BOOLEAN}

FirstVisit(c) == IF AtEndOf(c) THEN <<>> ELSE <<c.mIter.pos>>

Start(c) ==
    /\ cursor = c
    /\ crashed = FALSE
    /\ err = FALSE
    /\ lastOp = "construct"
    /\ resetFrom = "none"
    /\ visited = FirstVisit(c)
    /\ pruned = {}
    /\ nextCalls = 0
    /\ driver = TRUE

\* No second iterator object.
NoOther == [strategy |-> "none"]

\* One iterator object, freshly constructed over its source.
InitOne ==
    /\ parent \in ParentFns
    /\ instance \in Nodes \cup {0}
    /\ strategy \in {"range", "map", "exclude"}
    /\ range \in IF strategy = "map" THEN {DefaultRange} ELSE Ranges
    /\ pathList \in IF strategy = "exclude" THEN PathLists ELSE {<<>>}
    /\ mPrimMap \in IF strategy = "map" THEN PrimMaps ELSE {<<>>}
    /\ Start(CASE strategy = "range" -> RangeConstruct(range)
               [] strategy = "map" -> MapConstruct(mPrimMap)
               [] OTHER -> ExcludeConstruct(range, pathList))

Init == InitOne /\ other = NoOther /\ turn = "none"

\* ---------------------------------------------------------------- actions
\* reset() starts a new pass.
DoReset(c) ==
    /\ ~crashed
    /\ cursor' = c
    /\ err' = FALSE
    /\ lastOp' = "reset"
    /\ resetFrom' = CASE lastOp = "reset" -> "reset"
                      [] lastOp # "reset" /\ atEnd -> "end"
                      [] lastOp # "reset" /\ ~atEnd /\ cursor.mIter.prune -> "pruned"
                      [] lastOp # "reset" /\ ~atEnd /\ ~cursor.mIter.prune /\ nextCalls > 0 -> "mid"
                      [] OTHER -> "start"
    /\ visited' = FirstVisit(c)
    /\ pruned' = {}
    /\ nextCalls' = 0
    /\ driver' = TRUE
    /\ UNCHANGED <<source, crashed, other, turn>>

\* pruneChildren(): the driver calls it on a positioned cursor only.
DoPrune(c, posted) ==
    /\ ~crashed
    /\ cursor' = c
    /\ err' = posted
    /\ lastOp' = "prune"
    /\ resetFrom' = "none"
    /\ pruned' = IF ~atEnd /\ cursor.mIter.pos # EndPos
                 THEN pruned \cup {<<RootIndex(cursor), cursor.mIter.pos>>}
                 ELSE pruned
    /\ driver' = (driver /\ ~atEnd)
    /\ UNCHANGED <<source, crashed, visited, nextCalls, other, turn>>

\* next(): the driver calls it on a positioned cursor only, then looks at
\* getCurrent() if the cursor is not at the end.
DoNext(c) ==
    /\ ~crashed
    /\ nextCalls < MaxCalls
    /\ cursor' = c
    /\ err' = FALSE
    /\ lastOp' = "next"
    /\ resetFrom' = "none"
    /\ visited' = IF AtEndOf(c) THEN visited ELSE Append(visited, c.mIter.pos)
    /\ nextCalls' = nextCalls + 1
    /\ driver' = (driver /\ ~atEnd)
    /\ UNCHANGED <<source, crashed, pruned, other, turn>>

\* The call never returns: the process is gone.
DoCrash(op) ==
    /\ ~crashed
    /\ crashed' = TRUE
    /\ lastOp' = op
    /\ resetFrom' = "none"
    /\ driver' = (driver /\ ~atEnd)
    /\ UNCHANGED <<source, cursor, err, visited, pruned, nextCalls, other, turn>>

ParsePrimIteratorRange_reset ==
    strategy = "range" /\ DoReset(RangeReset(cursor))

ParsePrimIteratorRange_pruneChildren ==
    strategy = "range" /\ DoPrune(RangePruneChildren(cursor), FALSE)

ParsePrimIteratorRange_next ==
    strategy = "range" /\ DoNext(RangeNext(cursor))

ParsePrimIteratorMapRange_reset ==
    strategy = "map" /\ DoReset(MapReset(mPrimMap, cursor))

ParsePrimIteratorMapRange_pruneChildren ==
    strategy = "map" /\ DoPrune(MapPruneChildren(cursor),
                                ~MapAtEnd(cursor) /\ PruneError(cursor.mIter))

\* With mIter never assigned (reset() found no first range), line 147 compares
\* and line 149 increments a default-constructed iterator: the comparison may
\* come out equal (nothing happens), or the increment reads through the
\* iterator's null range and the process dies.
ParsePrimIteratorMapRange_next ==
    /\ strategy = "map"
    /\ IF cursor.mIter.bound
       THEN DoNext(MapNext(mPrimMap, cursor))
       ELSE DoNext(cursor) \/ DoCrash("next")

ExcludeListPrimIteratorRange_reset ==
    strategy = "exclude" /\ DoReset(ExcludeReset(cursor))

ExcludeListPrimIteratorRange_pruneChildren ==
    strategy = "exclude" /\ DoPrune(ExcludePruneChildren(cursor),
                                    PruneError(cursor.mIter))

ExcludeListPrimIteratorRange_next ==
    strategy = "exclude" /\ DoNext(ExcludeNext(cursor))

Next ==
    \/ ParsePrimIteratorRange_reset
    \/ ParsePrimIteratorRange_pruneChildren
    \/ ParsePrimIteratorRange_next
    \/ ParsePrimIteratorMapRange_reset
    \/ ParsePrimIteratorMapRange_pruneChildren
    \/ ParsePrimIteratorMapRange_next
    \/ ExcludeListPrimIteratorRange_reset
    \/ ExcludeListPrimIteratorRange_pruneChildren
    \/ ExcludeListPrimIteratorRange_next

Spec == Init /\ [][Next]_vars

\* ------------------------------------------------- two iterator objects
\* A second object of any of the three classes is constructed over the source
\* of the first: the same range and pathList, or the same UsdPrimMap; a
\* Multi-Range object beside a single-range one gets the map of that range's
\* root, a single-range object beside a Multi-Range one the range of the
\* map's first prim.
SecondRange ==
    IF strategy = "map"
    THEN UsdPrimRange(IF mPrimMap = <<>> THEN InvalidPrim ELSE mPrimMap[1], TRUE)
    ELSE range

SecondPrimMap == IF strategy = "map" THEN mPrimMap ELSE <<range.root>>

SecondConstruct(s) ==
    CASE s = "range" -> RangeConstruct(SecondRange)
      [] s = "map" -> MapConstruct(SecondPrimMap)
      [] OTHER -> ExcludeConstruct(SecondRange, pathList)

\* The two-object runs start from sources of one excluded path and two roots
\* at most, their ranges built with the default predicate.
InitTwo ==
    /\ InitOne
    /\ ~range.trav /\ Len(pathList) <= 1 /\ Len(mPrimMap) <= 2
    /\ other \in {[strategy |-> s, cursor |-> SecondConstruct(s)] :
                     s \in {"range", "map", "exclude"}}
    /\ turn = "none"

Returns(c) == [cursor |-> c, crashed |-> FALSE]

Dies(c) == [cursor |-> c, crashed |-> TRUE]

\* The outcomes of the member function op of class s on an object with
\* members c (a Multi-Range one built over primMap).
Outcomes(s, op, primMap, c) ==
    CASE s = "range" /\ op = "reset" -> {Returns(RangeReset(c))}
      [] s = "range" /\ op = "prune" -> {Returns(RangePruneChildren(c))}
      [] s = "range" /\ op = "next" -> {Returns(RangeNext(c))}
      [] s = "map" /\ op = "reset" -> {Returns(MapReset(primMap, c))}
      [] s = "map" /\ op = "prune" -> {Returns(MapPruneChildren(c))}
      [] s = "map" /\ op = "next" ->
             IF c.mIter.bound THEN {Returns(MapNext(primMap, c))}
             ELSE {Returns(c), Dies(c)}
      [] s = "exclude" /\ op = "reset" -> {Returns(ExcludeReset(c))}
      [] s = "exclude" /\ op = "prune" -> {Returns(ExcludePruneChildren(c))}
      [] OTHER -> {Returns(ExcludeNext(c))}

\* A call on the first object writes that object's members.
First(op) ==
    /\ ~crashed
    /\ \E o \in Outcomes(strategy, op, mPrimMap, cursor) :
           cursor' = o.cursor /\ crashed' = o.crashed
    /\ lastOp' = op
    /\ turn' = "first"
    /\ UNCHANGED <<source, other, err, resetFrom, visited, pruned, nextCalls, driver>>

\* A call on the second object writes that object's members.
Second(op) ==
    /\ ~crashed
    /\ \E o \in Outcomes(other.strategy, op, SecondPrimMap, other.cursor) :
           other' = [other EXCEPT !.cursor = o.cursor] /\ crashed' = o.crashed
    /\ lastOp' = op
    /\ turn' = "second"
    /\ UNCHANGED <<source, cursor, err, resetFrom, visited, pruned, nextCalls, driver>>

First_reset == First("reset")

First_pruneChildren == First("prune")

First_next == First("next")

Second_reset == Second("reset")

Second_pruneChildren == Second("prune")

\* Mutant: mIter is one static member that all the objects share.
Second_next_StaticIter ==
    /\ ~crashed
    /\ \E o \in Outcomes(other.strategy, "next", SecondPrimMap, other.cursor) :
           /\ other' = [other EXCEPT !.cursor = o.cursor]
           /\ cursor' = [cursor EXCEPT !.mIter = o.cursor.mIter]
           /\ crashed' = o.crashed
    /\ lastOp' = "next"
    /\ turn' = "second"
    /\ UNCHANGED <<source, err, resetFrom, visited, pruned, nextCalls, driver>>

Second_next == Second("next")

NextTwo ==
    \/ First_reset
    \/ First_pruneChildren
    \/ First_next
    \/ Second_reset
    \/ Second_pruneChildren
    \/ Second_next

SpecTwo == InitTwo /\ [][NextTwo]_vars

\* ------------------------------------------------- reference definitions
\* Depth-first pre-order of the subtree of n in a range, by structural
\* recursion: prims in X are left out with their subtrees, prims in P keep
\* their place and lose their descendants.
RECURSIVE RefSeq(_, _, _, _), RefKids(_, _, _, _)
RefSeq(rng, n, X, P) ==
    IF n \in X THEN <<>>
    ELSE <<n>> \o (IF n \in P THEN <<>>
                   ELSE RefKids(rng, {c \in Nodes : parent[c] = n /\ Admits(rng, c)}, X, P))

RefKids(rng, kids, X, P) ==
    IF kids = {} THEN <<>>
    ELSE LET k == Min(kids)
         IN  RefSeq(rng, k, X, P) \o RefKids(rng, kids \ {k}, X, P)

RefRange(rng, X, P) ==
    IF rng.root = InvalidPrim THEN <<>> ELSE RefSeq(rng, rng.root, X, P)

ElemsOf(q) == {q[i] : i \in 1..Len(q)}

IsPrefix(q, r) == Len(q) <= Len(r) /\ \A i \in 1..Len(q) : q[i] = r[i]

\* The prims pruned by the driver while the cursor was under root entry i.
PrunedUnder(i) == {p[2] : p \in {q \in pruned : q[1] = i}}

\* The range the map iterator builds for entry i (lines 120 and 161).
MapRangeOf(i) == UsdPrimRange(mPrimMap[i], i = 1)

RECURSIVE MapRefFrom(_)
MapRefFrom(i) ==
    IF i > Len(mPrimMap) THEN <<>>
    ELSE RefRange(MapRangeOf(i), {}, PrunedUnder(i)) \o MapRefFrom(i + 1)

\* The first entry's range is empty (an invalid prim).
FirstRootEmpty ==
    Len(mPrimMap) >= 1 /\ RefRange(UsdPrimRange(mPrimMap[1], TRUE), {}, {}) = <<>>

\* What a pass is to visit, in order: the prims of the source that neither the
\* driver nor the exclusion set prunes.  An empty first range leaves a
\* Multi-Range pass nothing to visit, and the exclusion set prunes the prims
\* next() reaches, so not the first one.
NonPruned ==
    CASE strategy = "range" -> RefRange(range, {}, PrunedUnder(1))
      [] strategy = "map" -> IF FirstRootEmpty THEN <<>> ELSE MapRefFrom(1)
      [] OTHER -> RefRange(range, PathSetOf(pathList) \ {range.root}, PrunedUnder(1))

CurrentValid == cursor.mIter.bound /\ cursor.mIter.pos # EndPos

\* ------------------------------------------------------------------ claims

\* C1: driven by the driver loop from a fresh cursor, every strategy reaches
\* atEnd() after as many next() calls as the source has non-pruned prims: the
\* calls never exceed that number, and equal it once atEnd() is true.
C1_TerminatesInNodeCount ==
    (driver /\ ~crashed) =>
        /\ nextCalls <= Len(NonPruned)
        /\ atEnd => nextCalls = Len(NonPruned)

\* C2: a next() call made by a Multi-Range cursor that sits on the end
\* sentinel of a non-first root's empty range rolls forward to the next root
\* entry (or to the end of the RootSet).
C2_RollsForwardPastEmptyRoot ==
    [][(strategy = "map" /\ ~atEnd /\ cursor.mIter = EndIter /\ lastOp' = "next")
         => cursor'.mPrimMapIter > cursor.mPrimMapIter]_vars

\* C3: in every reachable state atEnd() is true exactly when getCurrent()
\* designates no prim of the source.
C3_AtEndIffNoCurrent == atEnd <=> ~CurrentValid

\* C4 (as claimed): once pruneChildren() was called with prim N current, no
\* descendant of N is the current prim later in the same pass.
C4_NoDescendantOfPrunedIsCurrent ==
    \A p \in pruned :
        ~(~atEnd /\ CurrentValid /\ cursor.mIter.pos \in StrictDesc(p[2]))

\* C4 (amended): a descendant of a pruned prim N is not the current prim for
\* as long as the cursor stays under the root in whose range N was pruned; it
\* can be only on the Multi-Range strategy, under a later root entry.
C4_NoDescendantOfPrunedInItsRange ==
    \A p \in pruned :
        (~atEnd /\ CurrentValid /\ cursor.mIter.pos \in StrictDesc(p[2]))
            => (strategy = "map" /\ cursor.mPrimMapIter > p[1])

\* Scenario B has run: A with children B and C, pruned at A, visited A only.
C4_Witness ==
    /\ strategy = "range"
    /\ parent[2] = 1 /\ parent[3] = 1 /\ range.root = 1
    /\ pruned = {<<1, 1>>}
    /\ lastOp = "next" /\ atEnd /\ visited = <<1>>

\* C5: a positioned Exclusion-Filtered cursor is never on a prim whose path,
\* or an ancestor's path, is in the exclusion set.
C5_NoExcludedPrimIsCurrent ==
    (strategy = "exclude" /\ ~atEnd) =>
        \A x \in cursor.mPathSet : cursor.mIter.pos \notin SubTree(x)

\* C6: driven to the end without pruneChildren(), an Exclusion-Filtered cursor
\* has visited every prim of the range that is neither excluded nor below an
\* excluded prim exactly once, in pre-order; excluded paths outside the range
\* do not matter.
NotExcluded(n) == \A x \in PathSetOf(pathList) : n \notin SubTree(x)

InRange(n) == n \in ElemsOf(RefRange(range, {}, {}))

\* The pass of the driver loop over an Exclusion-Filtered cursor c.
RECURSIVE ExcludePass(_, _)
ExcludePass(c, fuel) ==
    IF ExcludeAtEnd(c) \/ fuel = 0 THEN <<>>
    ELSE <<c.mIter.pos>> \o ExcludePass(ExcludeNext(c), fuel - 1)

C6_ExclusionCompleteness ==
    (strategy = "exclude" /\ driver /\ atEnd /\ pruned = {}) =>
        /\ SelectSeq(visited, NotExcluded)
               = SelectSeq(RefRange(range, {}, {}), NotExcluded)
        /\ visited = ExcludePass(ExcludeConstruct(range, SelectSeq(pathList, InRange)),
                                 MaxNodes)

\* A pass has ended that skipped an excluded prim with a child, with a second
\* excluded path that names no prim of the range.
C6_Witness ==
    /\ strategy = "exclude" /\ driver /\ atEnd /\ pruned = {}
    /\ lastOp = "next" /\ Len(visited) >= 1
    /\ \E x \in PathSetOf(pathList) : InRange(x) /\ x # range.root /\ StrictDesc(x) # {}
    /\ \E x \in PathSetOf(pathList) : ~InRange(x) /\ x \notin Ancestors(range.root)

\* C7: with no pruning a Multi-Range pass visits the concatenation, in root
\* order, of the roots' depth-first sequences, empty ones contributing
\* nothing: what it has visited is a prefix of it, and all of it at the end.
C7_VisitsConcatenationOfRoots ==
    (strategy = "map" /\ driver /\ ~crashed /\ pruned = {}) =>
        /\ IsPrefix(visited, MapRefFrom(1))
        /\ atEnd => visited = MapRefFrom(1)

\* C8: a Multi-Range cursor whose first root entry has an empty range is at
\* the end after construction, after reset() and after any next() calls.
C8_EmptyFirstRootStaysAtEnd ==
    (strategy = "map" /\ FirstRootEmpty) => (atEnd /\ ~crashed)

\* C9: over an empty source, atEnd() is true right after construction and
\* after every reset(), and the driver loop has nothing to visit.
SourceEmpty ==
    IF strategy = "map"
    THEN \A i \in 1..Len(mPrimMap) : RefRange(UsdPrimRange(mPrimMap[i], TRUE), {}, {}) = <<>>
    ELSE RefRange(range, {}, {}) = <<>>

C9_EmptySourceIsAtEnd ==
    (SourceEmpty /\ lastOp \in {"construct", "reset"}) =>
        (atEnd /\ visited = <<>> /\ ~err /\ ~crashed)

\* reset() was called on a Multi-Range cursor whose roots all have empty ranges.
C9_Witness ==
    /\ strategy = "map" /\ Len(mPrimMap) = 2 /\ SourceEmpty
    /\ lastOp = "reset" /\ atEnd

\* C10: after reset(), whatever came before, the iterator's members equal
\* those of a freshly constructed iterator over the same source, and so do
\* what the driver sees first and the pending prune (none).
Fresh ==
    CASE strategy = "range" -> [mRange |-> range, mIter |-> BeginIter(range)]
      [] strategy = "map" ->
            IF Len(mPrimMap) = 0
            THEN [mAtEnd |-> TRUE, mPrimMapIter |-> 1,
                  mRange |-> DefaultRange, mIter |-> SingularIter]
            ELSE [mAtEnd |-> mPrimMap[1] = InvalidPrim, mPrimMapIter |-> 1,
                  mRange |-> UsdPrimRange(mPrimMap[1], TRUE),
                  mIter |-> IF mPrimMap[1] = InvalidPrim THEN SingularIter
                            ELSE IterAt(mPrimMap[1])]
      [] OTHER -> [mRange |-> range, mIter |-> BeginIter(range),
                   mPathSet |-> PathSetOf(pathList)]

C10_ResetRestoresFreshState ==
    lastOp = "reset" =>
        /\ cursor = Fresh
        /\ ~cursor.mIter.prune
        /\ visited = FirstVisit(Fresh)
        /\ pruned = {} /\ nextCalls = 0

\* reset() was called after a pruneChildren() in the middle of a pass.
C10_Witness ==
    /\ lastOp = "reset" /\ resetFrom = "pruned"
    /\ strategy = "map" /\ Len(mPrimMap) >= 2
    /\ ~atEnd /\ cursor = Fresh

\* C11: once atEnd() is true, a next() or pruneChildren() call returns with
\* atEnd() still true.
C11_AtEndIsStable ==
    [][(atEnd /\ ~crashed /\ lastOp' \in {"next", "prune"}) => (atEnd' /\ ~crashed')]_vars

\* C12: a getCurrent() call made while atEnd() is true fails; it does not
\* hand an iterator back to its caller.
C12_GetCurrentAtEndFails == (atEnd /\ ~crashed) => GetCurrentOutcome.failed

\* C13: a next() call made while atEnd() is true returns and leaves every
\* member of the iterator as it was.
C13_NextAtEndIsNoOp ==
    [][(atEnd /\ ~crashed /\ lastOp' = "next") => (cursor' = cursor /\ ~crashed')]_vars

\* C14: a pruneChildren() call made while atEnd() is true changes nothing,
\* records no prune and posts no error.
C14_PruneAtEndIsSilentNoOp ==
    [][(atEnd /\ ~crashed /\ lastOp' = "prune")
         => (cursor' = cursor /\ pruned' = pruned /\ atEnd' /\ ~err')]_vars

\* C15: a pruneChildren() call on a positioned cursor leaves it positioned on
\* the same prim; it changes the pending prune of mIter and nothing else.
C15_PruneDoesNotAdvance ==
    [][(~atEnd /\ ~crashed /\ lastOp' = "prune")
         => /\ ~atEnd'
            /\ cursor'.mIter.pos = cursor.mIter.pos
            /\ [cursor' EXCEPT !.mIter.prune = cursor.mIter.prune] = cursor
            /\ visited' = visited /\ nextCalls' = nextCalls]_vars

\* pruneChildren() was called on a Multi-Range cursor on a prim with children.
C15_Witness ==
    /\ strategy = "map" /\ lastOp = "prune" /\ ~atEnd
    /\ cursor.mIter.prune /\ FirstChild(cursor.mRange, cursor.mIter.pos) # EndPos

\* C16: a Single-Range pass visits the pre-order of the range without the
\* strict descendants of the prims the driver pruned at: what it has visited
\* is a prefix of that sequence, and all of it at the end.
C16_PreOrderWithExactPruning ==
    (strategy = "range" /\ driver) =>
        /\ IsPrefix(visited, RefRange(range, {}, PrunedUnder(1)))
        /\ atEnd => visited = RefRange(range, {}, PrunedUnder(1))

\* A pass over the chain A, B, D pruned at B has ended: it visited A and B.
C16_Witness ==
    /\ strategy = "range" /\ driver /\ atEnd /\ lastOp = "next"
    /\ parent[2] = 1 /\ parent[3] = 2 /\ range.root = 1
    /\ pruned = {<<1, 2>>} /\ visited = <<1, 2>>

RECURSIVE MapPass(_, _, _)
MapPass(primMap, c, fuel) ==
    IF MapAtEnd(c) \/ fuel = 0 THEN <<>>
    ELSE <<c.mIter.pos>> \o MapPass(primMap, MapNext(primMap, c), fuel - 1)

\* What a pass visits under each entry from i on when that entry is the first
\* (and only) entry of its map.
RECURSIVE AsFirstFrom(_)
AsFirstFrom(i) ==
    IF i > Len(mPrimMap) THEN <<>>
    ELSE MapPass(<<mPrimMap[i]>>, MapConstruct(<<mPrimMap[i]>>), MaxNodes)
             \o AsFirstFrom(i + 1)

AllRootsValid == \A i \in 1..Len(mPrimMap) : mPrimMap[i] # InvalidPrim

\* C18: a Multi-Range pass without prunes over non-empty roots visits under
\* each root what it visits under that root when it is the first entry.
C18_RootPositionIndependence ==
    (strategy = "map" /\ driver /\ atEnd /\ pruned = {} /\ AllRootsValid)
        => visited = AsFirstFrom(1)

\* The Single-Range view of an Exclusion-Filtered cursor, and the Single-Range
\* operation of the same name as op.
AsRange(c) == [mRange |-> c.mRange, mIter |-> c.mIter]

RangeStep(op, c) ==
    CASE op = "reset" -> RangeReset(c)
      [] op = "next" -> RangeNext(c)
      [] op = "prune" -> RangePruneChildren(c)
      [] OTHER -> c

\* C19: an Exclusion-Filtered cursor with an empty pathList starts where the
\* Single-Range cursor over the same range starts, and each reset(), next()
\* and (while positioned) pruneChildren() takes it where the Single-Range
\* operation takes that cursor: same atEnd(), same current prim.
C19_EmptyExclusionIsSingleRange ==
    /\ (strategy = "exclude" /\ pathList = <<>>) => AsRange(cursor) = RangeConstruct(range)
    /\ [][(strategy = "exclude" /\ pathList = <<>> /\ (lastOp' = "prune" => ~atEnd))
            => /\ AsRange(cursor') = RangeStep(lastOp', AsRange(cursor))
               /\ atEnd' = RangeAtEnd(RangeStep(lastOp', AsRange(cursor)))]_vars

\* An Exclusion-Filtered cursor with an empty pathList has stepped past a
\* pruned prim with a child.
C19_Witness ==
    /\ strategy = "exclude" /\ pathList = <<>> /\ lastOp = "next"
    /\ \E p \in pruned : FirstChild(range, p[2]) # EndPos
    /\ Len(visited) >= 2

\* No root entry is in the subtree of another.
DisjointRoots ==
    \A i, j \in 1..Len(mPrimMap) :
        (i # j /\ mPrimMap[i] # InvalidPrim /\ mPrimMap[j] # InvalidPrim)
            => mPrimMap[i] \notin SubTree(mPrimMap[j])

IsPrim(n) == n # EndPos

NoDuplicates(q) == \A i, j \in 1..Len(q) : q[i] = q[j] => i = j

\* C20: over roots none of which lies under another, a Multi-Range pass has
\* no prim current twice, and what it visits under each root is the pre-order
\* of that root's range less the descendants of the prims pruned under that
\* root, whatever was pruned under the others.
C20_NoDuplicateAcrossDisjointRoots ==
    (strategy = "map" /\ DisjointRoots) =>
        /\ NoDuplicates(SelectSeq(visited, IsPrim))
        /\ driver => IsPrefix(SelectSeq(visited, IsPrim), MapRefFrom(1))
        /\ (driver /\ atEnd /\ ~FirstRootEmpty) => visited = MapRefFrom(1)

\* A pass over two disjoint roots has ended; a prim with a child was pruned
\* at under the first root, and the second root was visited after it.
C20_Witness ==
    /\ strategy = "map" /\ DisjointRoots /\ driver /\ atEnd /\ Len(mPrimMap) = 2
    /\ \E p \in pruned : p[1] = 1 /\ FirstChild(MapRangeOf(1), p[2]) # EndPos
    /\ Len(visited) >= 2
    /\ visited[Len(visited)] \in ElemsOf(RefRange(MapRangeOf(2), {}, {}))

====
